---- MODULE Spec2Model ----
(***************************************************************************)
(* Route-table reconciliation of the IP Manager (src/main.py): the route   *)
(* snapshot, the added-route ledger and its backing file, the polling      *)
(* timer and the Tk callbacks that read and change them.                   *)
(*                                                                         *)
(* Python strings are TLA+ strings; a character is a string of length 1.   *)
(***************************************************************************)
EXTENDS Integers, Sequences, FiniteSets, TLC

(***************************************************************************)
(* String primitives used by the source (str.strip, str.split, `in`).      *)
(***************************************************************************)
Char(s, i) == SubSeq(s, i, i)

Digits == {"0", "1", "2", "3", "4", "5", "6", "7", "8", "9"}

Whitespace == {" ", "\t", "\r", "\n"}

DigitVal(c) ==
    CASE c = "0" -> 0 [] c = "1" -> 1 [] c = "2" -> 2 [] c = "3" -> 3
      [] c = "4" -> 4 [] c = "5" -> 5 [] c = "6" -> 6 [] c = "7" -> 7
      [] c = "8" -> 8 [] c = "9" -> 9

\* sub in s
Contains(s, sub) ==
    \E i \in 1..(Len(s) - Len(sub) + 1) : SubSeq(s, i, i + Len(sub) - 1) = sub


\* s.find(sub) + 1: position of the first occurrence of sub in s at or after
\* position i, 0 when there is none
RECURSIVE FindFrom(_, _, _)
FindFrom(s, sub, i) ==
    IF i + Len(sub) - 1 > Len(s) THEN 0
    ELSE IF SubSeq(s, i, i + Len(sub) - 1) = sub THEN i
    ELSE FindFrom(s, sub, i + 1)

Find(s, sub) == FindFrom(s, sub, 1)

\* s.strip()
strip(s) ==
    LET idx == {i \in 1..Len(s) : Char(s, i) \notin Whitespace}
    IN  IF idx = {} THEN ""
        ELSE LET lo == CHOOSE i \in idx : \A j \in idx : i <= j
                 hi == CHOOSE i \in idx : \A j \in idx : i >= j
             IN  SubSeq(s, lo, hi)

\* s.split(sep) for a non-empty separator: every piece, empty ones included
RECURSIVE split_on(_, _)
split_on(s, sep) ==
    LET p == Find(s, sep)
    IN  IF p = 0 THEN <<s>>
        ELSE <<SubSeq(s, 1, p - 1)>> \o split_on(SubSeq(s, p + Len(sep), Len(s)), sep)

\* s.split(): the maximal runs of non-whitespace characters
RECURSIVE split(_)
split(s) ==
    LET t == strip(s)
    IN  IF t = "" THEN <<>>
        ELSE LET ws == {i \in 1..Len(t) : Char(t, i) \in Whitespace}
             IN  IF ws = {} THEN <<t>>
                 ELSE LET p == CHOOSE i \in ws : \A j \in ws : i <= j
                      IN  <<SubSeq(t, 1, p - 1)>> \o split(SubSeq(t, p, Len(t)))

\* int(s) of a string of decimal digits
RECURSIVE int(_)
int(s) ==
    IF Len(s) = 0 THEN 0
    ELSE 10 * int(SubSeq(s, 1, Len(s) - 1)) + DigitVal(Char(s, Len(s)))

\* format(o, '08b')
RECURSIVE bin(_, _)
bin(o, width) ==
    IF width = 0 THEN ""
    ELSE bin(o \div 2, width - 1) \o (IF o % 2 = 1 THEN "1" ELSE "0")

(***************************************************************************)
(* Validators                                                              *)
(***************************************************************************)
\* a group matched by (\d{1,3})
IsOctetGroup(g) ==
    /\ Len(g) \in 1..3
    /\ \A i \in 1..Len(g) : Char(g, i) \in Digits

\* faulty variant of validate_ipv4: the groups are matched but not compared with 255
validate_ipv4_range_unchecked(ip) ==
    LET groups == split_on(strip(ip), ".")
    IN  /\ Len(groups) = 4
        /\ \A i \in 1..4 : IsOctetGroup(groups[i])

validate_ipv4(ip) ==
    LET groups == split_on(strip(ip), ".")
    IN  /\ Len(groups) = 4
        /\ \A i \in 1..4 : IsOctetGroup(groups[i])
        /\ \A i \in 1..4 : int(groups[i]) <= 255

\* faulty variant of validate_subnet_mask: '01' is looked for in each octet's
\* eight bits instead of in the 32 joined bits
validate_subnet_mask_per_octet(mask) ==
    /\ validate_ipv4(mask)
    /\ LET octets == split_on(strip(mask), ".")
       IN  \A i \in 1..4 : ~Contains(bin(int(octets[i]), 8), "01")

validate_subnet_mask(mask) ==
    /\ validate_ipv4(mask)
    /\ LET octets == split_on(strip(mask), ".")
           binary == bin(int(octets[1]), 8) \o bin(int(octets[2]), 8)
                        \o bin(int(octets[3]), 8) \o bin(int(octets[4]), 8)
       IN  ~Contains(binary, "01")

(***************************************************************************)
(* Route Table Parser                                                      *)
(***************************************************************************)
\* faulty variant of parse_lines: a row must have exactly five fields
RECURSIVE parse_lines_exactly_five(_, _, _)
parse_lines_exactly_five(lines, i, in_active_routes) ==
    IF i > Len(lines) THEN <<>>
    ELSE LET line == lines[i]
             parts == split(line)
         IN  IF Contains(line, "Active Routes:")
                THEN parse_lines_exactly_five(lines, i + 1, TRUE)
             ELSE IF Contains(line, "Persistent Routes:")
                THEN <<>>
             ELSE IF ~in_active_routes
                THEN parse_lines_exactly_five(lines, i + 1, in_active_routes)
             ELSE IF Contains(line, "Network Destination")
                THEN parse_lines_exactly_five(lines, i + 1, in_active_routes)
             ELSE IF Contains(line, "==")
                THEN parse_lines_exactly_five(lines, i + 1, in_active_routes)
             ELSE IF strip(line) = ""
                THEN parse_lines_exactly_five(lines, i + 1, in_active_routes)
             ELSE IF Len(parts) = 5 /\ (validate_ipv4(parts[1]) \/ parts[1] = "0.0.0.0")
                THEN <<[destination |-> parts[1], netmask |-> parts[2],
                        gateway |-> parts[3], interface |-> parts[4],
                        metric |-> parts[5]]>>
                     \o parse_lines_exactly_five(lines, i + 1, in_active_routes)
             ELSE parse_lines_exactly_five(lines, i + 1, in_active_routes)

\* the loop of parse_route_print over lines[i..], with its flag
RECURSIVE parse_lines(_, _, _)
parse_lines(lines, i, in_active_routes) ==
    IF i > Len(lines) THEN <<>>
    ELSE LET line == lines[i]
             parts == split(line)
         IN  IF Contains(line, "Active Routes:")
                THEN parse_lines(lines, i + 1, TRUE)
             ELSE IF Contains(line, "Persistent Routes:")
                THEN <<>>
             ELSE IF ~in_active_routes
                THEN parse_lines(lines, i + 1, in_active_routes)
             ELSE IF Contains(line, "Network Destination")
                THEN parse_lines(lines, i + 1, in_active_routes)
             ELSE IF Contains(line, "==")
                THEN parse_lines(lines, i + 1, in_active_routes)
             ELSE IF strip(line) = ""
                THEN parse_lines(lines, i + 1, in_active_routes)
             ELSE IF Len(parts) >= 5 /\ (validate_ipv4(parts[1]) \/ parts[1] = "0.0.0.0")
                THEN <<[destination |-> parts[1], netmask |-> parts[2],
                        gateway |-> parts[3], interface |-> parts[4],
                        metric |-> parts[5]]>>
                     \o parse_lines(lines, i + 1, in_active_routes)
             ELSE parse_lines(lines, i + 1, in_active_routes)

parse_route_print(output) == parse_lines(split_on(output, "\n"), 1, FALSE)

\* faulty variant of persistent_lines: rows are taken from every section
RECURSIVE persistent_lines_any_section(_, _, _)
persistent_lines_any_section(lines, i, in_persistent) ==
    IF i > Len(lines) THEN {}
    ELSE LET line == lines[i]
             parts == split(line)
         IN  IF Contains(line, "Persistent Routes:")
                THEN persistent_lines_any_section(lines, i + 1, TRUE)
             ELSE IF FALSE
                THEN persistent_lines_any_section(lines, i + 1, in_persistent)
             ELSE IF Contains(line, "==")
                THEN persistent_lines_any_section(lines, i + 1, in_persistent)
             ELSE IF Contains(line, "None")
                THEN {}
             ELSE IF Len(parts) >= 1 /\ (validate_ipv4(parts[1]) \/ parts[1] = "0.0.0.0")
                THEN {parts[1]} \cup persistent_lines_any_section(lines, i + 1, in_persistent)
             ELSE persistent_lines_any_section(lines, i + 1, in_persistent)

\* the loop of get_persistent_routes over lines[i..], with its flag
RECURSIVE persistent_lines(_, _, _)
persistent_lines(lines, i, in_persistent) ==
    IF i > Len(lines) THEN {}
    ELSE LET line == lines[i]
             parts == split(line)
         IN  IF Contains(line, "Persistent Routes:")
                THEN persistent_lines(lines, i + 1, TRUE)
             ELSE IF ~in_persistent
                THEN persistent_lines(lines, i + 1, in_persistent)
             ELSE IF Contains(line, "==")
                THEN persistent_lines(lines, i + 1, in_persistent)
             ELSE IF Contains(line, "None")
                THEN {}
             ELSE IF Len(parts) >= 1 /\ (validate_ipv4(parts[1]) \/ parts[1] = "0.0.0.0")
                THEN {parts[1]} \cup persistent_lines(lines, i + 1, in_persistent)
             ELSE persistent_lines(lines, i + 1, in_persistent)

\* what get_persistent_routes makes of the stdout of a route print that exited 0
parse_persistent(output) == persistent_lines(split_on(output, "\n"), 1, FALSE)

(***************************************************************************)
(* Persistence Classifier (the body of the loop in refresh_routes)         *)
(***************************************************************************)
WellKnown == {"0.0.0.0", "127.0.0.0", "127.0.0.1", "224.0.0.0", "255.255.255.255"}

\* faulty variant of classify: the well-known list is consulted before the persistent set
classify_wellknown_first(route, persistent_routes) ==
    LET dest == route.destination
        is_persistent ==
            IF dest \in WellKnown THEN "Unknown"
            ELSE IF dest \in persistent_routes THEN "Yes"
            ELSE "No"
    IN  [destination |-> route.destination, netmask |-> route.netmask,
         gateway |-> route.gateway, interface |-> route.interface,
         metric |-> route.metric, persistent |-> is_persistent]

\* faulty variant of classify: `in` for `not in` in the elif
classify_list_inverted(route, persistent_routes) ==
    LET dest == route.destination
        is_persistent ==
            IF dest \in persistent_routes THEN "Yes"
            ELSE IF dest \in WellKnown THEN "No"
            ELSE "Unknown"
    IN  [destination |-> route.destination, netmask |-> route.netmask,
         gateway |-> route.gateway, interface |-> route.interface,
         metric |-> route.metric, persistent |-> is_persistent]

classify(route, persistent_routes) ==
    LET dest == route.destination
        is_persistent ==
            IF dest \in persistent_routes THEN "Yes"
            ELSE IF dest \notin WellKnown THEN "No"
            ELSE "Unknown"
    IN  [destination |-> route.destination, netmask |-> route.netmask,
         gateway |-> route.gateway, interface |-> route.interface,
         metric |-> route.metric, persistent |-> is_persistent]

(***************************************************************************)
(* The operating system's side: what `route print -4` writes to stdout for *)
(* a routing table.  Another tool may change the table at any moment, so   *)
(* every invocation may see any table of the bounded universe.             *)
(***************************************************************************)
DefaultRoute ==
    [destination |-> "0.0.0.0", netmask |-> "0.0.0.0",
     gateway |-> "192.168.1.1", interface |-> "192.168.1.5", metric |-> "25"]

NetRoute ==
    [destination |-> "10.0.0.0", netmask |-> "255.0.0.0",
     gateway |-> "On-link", interface |-> "172.17.0.1", metric |-> "271"]

\* routing tables: the active rows in table order, the persistent rows
OsTables ==
    { [active |-> <<DefaultRoute, NetRoute>>, persistent |-> <<>>],
      [active |-> <<DefaultRoute>>, persistent |-> <<DefaultRoute>>] }

RECURSIVE ActiveLines(_)
ActiveLines(rows) ==
    IF rows = <<>> THEN ""
    ELSE LET r == Head(rows)
         IN  "  " \o r.destination \o "   " \o r.netmask \o "  " \o r.gateway
                \o "    " \o r.interface \o " " \o r.metric \o "\n"
                \o ActiveLines(Tail(rows))

RECURSIVE PersistentLines(_)
PersistentLines(rows) ==
    IF rows = <<>> THEN ""
    ELSE LET r == Head(rows)
         IN  "  " \o r.destination \o "   " \o r.netmask \o "  " \o r.gateway
                \o "  1\n" \o PersistentLines(Tail(rows))

RoutePrintText(table) ==
    "====\nInterface List\n  1....Software Loopback Interface 1\n====\n\n"
    \o "IPv4 Route Table\n====\nActive Routes:\n"
    \o "Network Destination   Netmask   Gateway   Interface Metric\n"
    \o ActiveLines(table.active)
    \o "====\nPersistent Routes:\n"
    \o (IF table.persistent = <<>> THEN "  None\n"
        ELSE "  Network Address   Netmask  Gateway Address  Metric\n"
                \o PersistentLines(table.persistent) \o "====\n")

RoutePrintOutputs == {RoutePrintText(t) : t \in OsTables}

\* parse_route_print and the parsing of get_persistent_routes, tabulated once
\* over the outputs the model uses
ParsedActive == [output \in RoutePrintOutputs |-> parse_route_print(output)]
ParsedPersistent == [output \in RoutePrintOutputs |-> parse_persistent(output)]

\* subprocess.run(["route", "print", "-4"], ...): a completed process with
\* its exit code and stdout, or an exception (timeout, spawn failure)
RoutePrintResults ==
    {[raised |-> FALSE, returncode |-> 0, stdout |-> o] : o \in RoutePrintOutputs}
        \cup {[raised |-> FALSE, returncode |-> 1, stdout |-> ""],
              [raised |-> TRUE, returncode |-> 1, stdout |-> ""]}

(***************************************************************************)
(* State                                                                   *)
(***************************************************************************)
VARIABLES
    is_admin,               \* self.is_admin
    interfaces,             \* self.interfaces
    added_routes,           \* self.added_routes, the in-memory ledger
    auto_refresh_enabled,   \* self.auto_refresh_enabled
    auto_refresh_var,       \* self.auto_refresh_var, the check box
    auto_refresh_job,       \* self.auto_refresh_job, 0 for None
    all_routes_data,        \* self.all_routes_data, the route snapshot
    published,              \* history variable: the snapshot the last completed
                            \* rebuild of refresh_routes produced
    current_filter,         \* self.current_filter
    tab_counts,             \* the counts shown on self.tab_buttons
    tree_rows,              \* the rows of self.routes_tree
    timers,                 \* ids of the pending root.after callbacks
    stack,                  \* call stack of the Tk (foreground) thread
    ledger_file,            \* content of added_routes.json
    audit_log               \* content of route_manager.log, one record per log_command

vars == <<is_admin, interfaces, added_routes, auto_refresh_enabled, auto_refresh_var,
          auto_refresh_job, all_routes_data, published, current_filter, tab_counts, tree_rows,
          timers, stack, ledger_file, audit_log>>

\* groups for UNCHANGED
polling == <<auto_refresh_enabled, auto_refresh_var, auto_refresh_job, timers>>
ledger  == <<added_routes, ledger_file>>
view    == <<current_filter, tab_counts, tree_rows>>
fixed   == <<is_admin, published, audit_log>>

(***************************************************************************)
(* The foreground thread.  A handler runs to completion unless it is in a  *)
(* messagebox call, whose nested event loop keeps serving timer callbacks. *)
(***************************************************************************)
Top == stack[Len(stack)]
Pop == SubSeq(stack, 1, Len(stack) - 1)
SetTop(f) == [stack EXCEPT ![Len(stack)] = f]
At(pc) == [Top EXCEPT !.pc = pc]
Running(fn, pc) == stack # <<>> /\ Top.fn = fn /\ Top.pc = pc

\* faulty variants of MessageBoxPcs: refresh_routes re-enters the event loop
\* (a root.update()) inside its rebuild loop, or while it waits for route print
MessageBoxPcs_update_in_loop ==
    {"msg_admin", "msg_invalid", "confirm", "msg_success", "msg_fail", "msg_exc", "append"}

MessageBoxPcs_update_in_fetch ==
    {"msg_admin", "msg_invalid", "confirm", "msg_success", "msg_fail", "msg_exc",
     "get_persistent"}

\* positions inside messagebox.showerror / showinfo / askyesno
MessageBoxPcs == {"msg_admin", "msg_invalid", "confirm", "msg_success", "msg_fail", "msg_exc"}

\* root.mainloop() is serving events: no callback is running
MainWindowIdle == stack = <<>>

\* an expired root.after callback can be run
TimersServed == IF stack = <<>> THEN TRUE ELSE Top.pc \in MessageBoxPcs

(***************************************************************************)
(* View: tab counts and the filtered tree                                  *)
(***************************************************************************)
\* faulty variant of update_tab_counts: temporary counts what is not 'Yes'
update_tab_counts_rest_temporary(snapshot) ==
    [all |-> Len(snapshot),
     persistent |-> Cardinality({i \in 1..Len(snapshot) : snapshot[i].persistent = "Yes"}),
     temporary |-> Cardinality({i \in 1..Len(snapshot) : snapshot[i].persistent # "Yes"})]

update_tab_counts(snapshot) ==
    [all |-> Len(snapshot),
     persistent |-> Cardinality({i \in 1..Len(snapshot) : snapshot[i].persistent = "Yes"}),
     temporary |-> Cardinality({i \in 1..Len(snapshot) : snapshot[i].persistent = "No"})]

\* faulty variant of Shown: the temporary tab skips only the 'Yes' entries
Shown_unknown_as_temporary(route, filter) ==
    /\ ~(filter = "persistent" /\ route.persistent # "Yes")
    /\ ~(filter = "temporary" /\ route.persistent = "Yes")

Shown(route, filter) ==
    /\ ~(filter = "persistent" /\ route.persistent # "Yes")
    /\ ~(filter = "temporary" /\ route.persistent # "No")

type_display(route) ==
    IF route.persistent = "Yes" THEN "PERSISTENT"
    ELSE IF route.persistent = "No" THEN "TEMPORARY" ELSE "SYSTEM"

RECURSIVE filter_routes(_, _)
filter_routes(snapshot, filter) ==
    IF snapshot = <<>> THEN <<>>
    ELSE LET route == Head(snapshot)
         IN  (IF Shown(route, filter)
              THEN << <<route.destination, route.netmask, route.gateway,
                        route.interface, route.metric, type_display(route)>> >>
              ELSE <<>>)
             \o filter_routes(Tail(snapshot), filter)

Filters == {"all", "persistent", "temporary"}

\* faulty variant of switch_tab: the tab is selected and the tree is left as it is
switch_tab_rows_kept(tab_id) ==
    /\ MainWindowIdle
    /\ current_filter' = tab_id
    /\ UNCHANGED <<fixed, interfaces, all_routes_data, tab_counts, tree_rows, stack,
                   polling, ledger>>

switch_tab(tab_id) ==
    /\ MainWindowIdle
    /\ current_filter' = tab_id
    /\ tree_rows' = filter_routes(all_routes_data, tab_id)
    /\ UNCHANGED <<fixed, interfaces, all_routes_data, tab_counts, stack,
                   polling, ledger>>

(***************************************************************************)
(* refresh_routes                                                          *)
(***************************************************************************)
\* a call of refresh_routes; snapshot_at_entry and fetch_failed are history
\* fields (what the snapshot was, whether a route print of the cycle failed)
RefreshFrame ==
    [fn |-> "refresh_routes", pc |-> "run",
     loc |-> [routes |-> <<>>, persistent_routes |-> {},
              snapshot_at_entry |-> all_routes_data, fetch_failed |-> FALSE]]

\* faulty variant of refresh_routes_run: no try/except around subprocess.run, an
\* exception ends refresh_routes and, with it, the auto_refresh_tick that called it
refresh_routes_run_uncaught ==
    /\ Running("refresh_routes", "run")
    /\ \E result \in RoutePrintResults :
          stack' =
            IF result.raised
            THEN IF Len(stack) >= 2 /\ stack[Len(stack) - 1].fn = "auto_refresh_tick"
                 THEN SubSeq(stack, 1, Len(stack) - 2)
                 ELSE SetTop([Top EXCEPT !.pc = "return", !.loc.fetch_failed = TRUE])
            ELSE SetTop(
                   IF result.returncode = 0
                   THEN [Top EXCEPT !.pc = "get_persistent",
                                    !.loc.routes = ParsedActive[result.stdout]]
                   ELSE [Top EXCEPT !.pc = "return", !.loc.fetch_failed = TRUE])
    /\ UNCHANGED <<fixed, interfaces, all_routes_data, polling, ledger, view>>

\* subprocess.run(["route", "print", "-4"]) and parse_route_print
refresh_routes_run ==
    /\ Running("refresh_routes", "run")
    /\ \E result \in RoutePrintResults :
          stack' = SetTop(
            IF ~result.raised /\ result.returncode = 0
            THEN [Top EXCEPT !.pc = "get_persistent",
                             !.loc.routes = ParsedActive[result.stdout]]
            ELSE [Top EXCEPT !.pc = "return", !.loc.fetch_failed = TRUE])
    /\ UNCHANGED <<fixed, interfaces, all_routes_data, polling, ledger, view>>

\* get_persistent_routes: a second route print, every failure swallowed
get_persistent_routes ==
    /\ Running("refresh_routes", "get_persistent")
    /\ \E result \in RoutePrintResults :
          stack' = SetTop(
            IF ~result.raised /\ result.returncode = 0
            THEN [Top EXCEPT !.pc = "rebuild",
                             !.loc.persistent_routes = ParsedPersistent[result.stdout]]
            ELSE [Top EXCEPT !.pc = "rebuild", !.loc.persistent_routes = {},
                             !.loc.fetch_failed = TRUE])
    /\ UNCHANGED <<fixed, interfaces, all_routes_data, polling, ledger, view>>

\* self.all_routes_data = []
refresh_routes_clear ==
    /\ Running("refresh_routes", "rebuild")
    /\ all_routes_data' = <<>>
    /\ stack' = SetTop(At("append"))
    /\ UNCHANGED <<fixed, interfaces, polling, ledger, view>>

\* one iteration of `for route in routes`
refresh_routes_append ==
    /\ Running("refresh_routes", "append")
    /\ Len(all_routes_data) < Len(Top.loc.routes)
    /\ all_routes_data' =
          Append(all_routes_data,
                 classify(Top.loc.routes[Len(all_routes_data) + 1], Top.loc.persistent_routes))
    /\ UNCHANGED <<fixed, interfaces, stack, polling, ledger, view>>

\* the whole loop of refresh_routes at once
RECURSIVE classify_all(_, _)
classify_all(routes, persistent_routes) ==
    IF routes = <<>> THEN <<>>
    ELSE <<classify(Head(routes), persistent_routes)>>
            \o classify_all(Tail(routes), persistent_routes)

\* update_tab_counts() and filter_routes() after the loop
refresh_routes_publish ==
    /\ Running("refresh_routes", "append")
    /\ Len(all_routes_data) = Len(Top.loc.routes)
    /\ tab_counts' = update_tab_counts(all_routes_data)
    /\ tree_rows' = filter_routes(all_routes_data, current_filter)
    /\ published' = classify_all(Top.loc.routes, Top.loc.persistent_routes)
    /\ stack' = SetTop(At("published"))
    /\ UNCHANGED <<is_admin, audit_log, interfaces, all_routes_data, current_filter,
                   polling, ledger>>

\* the function returns: early after a failed route print, or after publishing
refresh_routes_return ==
    /\ stack # <<>> /\ Top.fn = "refresh_routes" /\ Top.pc \in {"return", "published"}
    /\ stack' = Pop
    /\ UNCHANGED <<fixed, interfaces, all_routes_data, polling, ledger, view>>

(***************************************************************************)
(* Polling                                                                 *)
(***************************************************************************)
\* the body of auto_refresh_tick up to the call of refresh_routes; caller is
\* the stack the tick is called on
TickCalledOn(caller) ==
    IF auto_refresh_enabled'
    THEN caller \o <<[fn |-> "auto_refresh_tick", pc |-> "schedule", loc |-> <<>>],
                     RefreshFrame>>
    ELSE caller

\* root.after: a fresh callback id
NewTimerId ==
    CHOOSE n \in 1..(Cardinality(timers) + 1) :
        /\ n \notin timers
        /\ \A m \in 1..(n - 1) : m \in timers

\* an expired timer runs auto_refresh_tick
auto_refresh_tick ==
    /\ TimersServed
    /\ \E id \in timers : timers' = timers \ {id}
    /\ UNCHANGED auto_refresh_enabled
    /\ stack' = TickCalledOn(stack)
    /\ UNCHANGED <<fixed, interfaces, all_routes_data, auto_refresh_var,
                   auto_refresh_job, ledger, view>>

\* self.auto_refresh_job = self.root.after(interval, self.auto_refresh_tick)
auto_refresh_tick_schedule ==
    /\ Running("auto_refresh_tick", "schedule")
    /\ auto_refresh_job' = NewTimerId
    /\ timers' = timers \cup {NewTimerId}
    /\ stack' = Pop
    /\ UNCHANGED <<fixed, interfaces, all_routes_data, auto_refresh_enabled,
                   auto_refresh_var, ledger, view>>

\* faulty variant of toggle_auto_refresh: stop_auto_refresh forgets the job
\* without cancelling it
toggle_auto_refresh_job_not_cancelled ==
    /\ MainWindowIdle
    /\ auto_refresh_var' = ~auto_refresh_var
    /\ auto_refresh_enabled' = auto_refresh_var'
    /\ IF auto_refresh_enabled'
       THEN /\ stack' = (IF auto_refresh_job = 0 THEN TickCalledOn(stack) ELSE stack)
            /\ UNCHANGED <<auto_refresh_job, timers>>
       ELSE /\ auto_refresh_job' = 0
            /\ UNCHANGED <<timers, stack>>
    /\ UNCHANGED <<fixed, interfaces, all_routes_data, ledger, view>>

\* the check box is clicked: toggle_auto_refresh with start_ / stop_auto_refresh
toggle_auto_refresh ==
    /\ MainWindowIdle
    /\ auto_refresh_var' = ~auto_refresh_var
    /\ auto_refresh_enabled' = auto_refresh_var'
    /\ IF auto_refresh_enabled'
       THEN /\ stack' = (IF auto_refresh_job = 0 THEN TickCalledOn(stack) ELSE stack)
            /\ UNCHANGED <<auto_refresh_job, timers>>
       ELSE /\ IF auto_refresh_job # 0
               THEN timers' = timers \ {auto_refresh_job} /\ auto_refresh_job' = 0
               ELSE UNCHANGED <<auto_refresh_job, timers>>
            /\ UNCHANGED stack
    /\ UNCHANGED <<fixed, interfaces, all_routes_data, ledger, view>>

(***************************************************************************)
(* Interfaces, manual refresh                                              *)
(***************************************************************************)
\* what interface discovery can return (PowerShell InterfaceAlias names)
InterfaceLists ==
    { << [index |-> "30", name |-> "vEthernet (Default Switch)", ipv4 |-> "172.17.0.1"] >> }

\* the Refresh button: refresh_interfaces, then refresh_routes
refresh_all ==
    /\ MainWindowIdle
    /\ interfaces' \in InterfaceLists
    /\ stack' = <<[fn |-> "refresh_all", pc |-> "return", loc |-> <<>>], RefreshFrame>>
    /\ UNCHANGED <<fixed, all_routes_data, polling, ledger, view>>

refresh_all_return ==
    /\ Running("refresh_all", "return")
    /\ stack' = Pop
    /\ UNCHANGED <<fixed, interfaces, all_routes_data, polling, ledger, view>>

(***************************************************************************)
(* Ledger file                                                             *)
(***************************************************************************)
MissingFile == [state |-> "missing", records |-> <<>>]
CorruptFile == [state |-> "corrupt", records |-> <<>>]
ValidFile(records) == [state |-> "valid", records |-> records]

load_added_routes(file) ==
    IF file.state = "valid" THEN file.records ELSE <<>>

(***************************************************************************)
(* Construction: RouteManagerApp.__init__                                  *)
(***************************************************************************)
Construct(file) ==
    /\ ledger_file = file
    /\ audit_log = <<>>
    /\ interfaces = <<>>
    /\ added_routes = load_added_routes(file)
    /\ is_admin \in BOOLEAN
    /\ auto_refresh_enabled = TRUE
    /\ auto_refresh_var = TRUE
    /\ auto_refresh_job = 0
    /\ all_routes_data = <<>>
    /\ published = <<>>
    /\ current_filter = "all"
    /\ tab_counts = [all |-> 0, persistent |-> 0, temporary |-> 0]
    /\ tree_rows = <<>>
    /\ timers = {}
    /\ stack = <<[fn |-> "__init__", pc |-> "refresh_interfaces", loc |-> <<>>]>>

\* a record an earlier run of the program added
PreviousRecord ==
    [destination |-> "10.0.0.0", mask |-> "255.0.0.0", gateway |-> "10.0.0.1",
     interface |-> "vEthernet", persistent |-> "No",
     timestamp |-> "2025-12-31 23:59:59"]

\* the ledger file at the start: none yet, or the one an earlier run wrote
InitialFiles == {MissingFile, ValidFile(<<PreviousRecord>>)}

Init == \E file \in InitialFiles : Construct(file)

\* self.refresh_interfaces(); self.refresh_routes()
init_refresh ==
    /\ Running("__init__", "refresh_interfaces")
    /\ interfaces' \in InterfaceLists
    /\ stack' = SetTop(At("start_auto_refresh")) \o <<RefreshFrame>>
    /\ UNCHANGED <<fixed, all_routes_data, polling, ledger, view>>

\* self.start_auto_refresh()
init_start_auto_refresh ==
    /\ Running("__init__", "start_auto_refresh")
    /\ UNCHANGED auto_refresh_enabled
    /\ stack' = (IF auto_refresh_enabled /\ auto_refresh_job = 0
                 THEN TickCalledOn(SetTop(At("return")))
                 ELSE SetTop(At("return")))
    /\ UNCHANGED <<fixed, interfaces, all_routes_data, auto_refresh_var,
                   auto_refresh_job, timers, ledger, view>>

\* __init__ returns and main() enters root.mainloop()
init_return ==
    /\ Running("__init__", "return")
    /\ stack' = Pop
    /\ UNCHANGED <<fixed, interfaces, all_routes_data, polling, ledger, view>>

(***************************************************************************)
(* save_added_routes: open(ADDED_ROUTES_FILE, "w") truncates the file, and *)
(* json.dump then writes the list.  Either call can raise.  The frame on   *)
(* top is the caller, at pc "save" and then "dump".                        *)
(***************************************************************************)
\* the list the caller passes: self.added_routes in do_add, [] in clear_history
SaveArgument == IF Top.fn = "do_add" THEN added_routes ELSE <<>>

\* an exception out of save_added_routes: do_add catches it and shows it,
\* clear_history lets it end the callback
SaveRaised ==
    IF Top.fn = "do_add" THEN SetTop(At("msg_exc")) ELSE Pop

\* save_added_routes returned: showinfo in do_add, the tree is emptied and the
\* callback ends in clear_history
SaveReturned ==
    IF Top.fn = "do_add" THEN SetTop(At("msg_success")) ELSE Pop

save_added_routes_open ==
    /\ stack # <<>> /\ Top.pc = "save"
    /\ \E opened \in BOOLEAN :
          IF opened
          THEN ledger_file' = CorruptFile /\ stack' = SetTop(At("dump"))
          ELSE UNCHANGED ledger_file /\ stack' = SaveRaised
    /\ UNCHANGED <<fixed, interfaces, added_routes, all_routes_data, polling, view>>

save_added_routes_dump ==
    /\ stack # <<>> /\ Top.pc = "dump"
    /\ \E written \in BOOLEAN :
          IF written
          THEN ledger_file' = ValidFile(SaveArgument) /\ stack' = SaveReturned
          ELSE UNCHANGED ledger_file /\ stack' = SaveRaised
    /\ UNCHANGED <<fixed, interfaces, added_routes, all_routes_data, polling, view>>

(***************************************************************************)
(* Mutation Gateway: the Add Route dialog                                  *)
(***************************************************************************)
MaxLedger == 2

\* add and delete commands run in a behaviour
MaxLog == 1

\* what the user can type into the entries
AddDestInputs == {"10.0.0.0 ", "256.1.1.1"}
AddMaskInputs == {"255.0.0.0", "255.0.255.0"}
AddGatewayInputs == {"10.0.0.1", ""}
DeleteDestInputs == {" 10.0.0.0", "1.2.3"}

\* datetime.now().strftime(...)
Timestamps == {"2026-01-01 00:00:00"}

\* subprocess.run of route add / route delete: exit code, or an exception
CommandResults == {"0", "1", "raised"}

\* log_command(command, stdout, stderr, success): one record appended to the log
log_command(command, success) ==
    Append(audit_log, [command |-> command,
                       status |-> IF success THEN "SUCCESS" ELSE "FAILED"])

\* ' '.join(cmd) of do_add
add_cmd(loc) ==
    (IF loc.persistent THEN "route -p add" ELSE "route add")
        \o " " \o loc.dest \o " mask " \o loc.mask \o " " \o loc.gateway
        \o (IF loc.ifindex # "" THEN " IF " \o loc.ifindex ELSE "")

\* f"route delete {dest}" of do_delete
delete_cmd(loc) == "route delete " \o loc.dest

\* the combobox entry of an interface
display(iface) ==
    iface.name \o (IF iface.ipv4 # "" THEN " (" \o iface.ipv4 \o ")" ELSE "")

\* interface_var.get().split(" (")[0] if interface_var.get() else "N/A"
iface_name(interface_var) ==
    IF interface_var # "" THEN split_on(interface_var, " (")[1] ELSE "N/A"

\* a messagebox.showerror is dismissed and the callback returns
showerror_return ==
    /\ stack # <<>>
    /\ Top.pc \in {"msg_admin", "msg_invalid", "msg_fail", "msg_exc"}
    /\ stack' = Pop
    /\ UNCHANGED <<fixed, interfaces, all_routes_data, polling,
                   ledger, view>>

\* faulty variant of do_add: an empty gateway entry is let through
do_add_gateway_optional(dest_entry, mask_entry, gateway_entry, iface, persistent) ==
    LET dest == strip(dest_entry)
        mask == strip(mask_entry)
        gateway == strip(gateway_entry)
    IN  IF \/ dest = "" \/ ~validate_ipv4(dest)
           \/ mask = "" \/ ~validate_subnet_mask(mask)
           \/ (gateway # "" /\ ~validate_ipv4(gateway))
        THEN [fn |-> "do_add", pc |-> "msg_invalid", loc |-> <<>>]
        ELSE [fn |-> "do_add",
              pc |-> IF persistent THEN "confirm" ELSE "run",
              loc |-> [dest |-> dest, mask |-> mask, gateway |-> gateway,
                       ifindex |-> iface.index,
                       interface_var |-> display(iface),
                       persistent |-> persistent,
                       confirmed |-> FALSE,
                       result |-> "none",
                       ledger_at_entry |-> <<added_routes, ledger_file>>]]

\* do_add up to the first messagebox or the command: read the form, validate
do_add(dest_entry, mask_entry, gateway_entry, iface, persistent) ==
    LET dest == strip(dest_entry)
        mask == strip(mask_entry)
        gateway == strip(gateway_entry)
    IN  IF \/ dest = "" \/ ~validate_ipv4(dest)
           \/ mask = "" \/ ~validate_subnet_mask(mask)
           \/ gateway = "" \/ ~validate_ipv4(gateway)
        THEN [fn |-> "do_add", pc |-> "msg_invalid", loc |-> <<>>]
        ELSE [fn |-> "do_add",
              pc |-> IF persistent THEN "confirm" ELSE "run",
              loc |-> [dest |-> dest, mask |-> mask, gateway |-> gateway,
                       ifindex |-> iface.index,
                       interface_var |-> display(iface),
                       persistent |-> persistent,
                       confirmed |-> FALSE,
                       result |-> "none",
                       ledger_at_entry |-> <<added_routes, ledger_file>>]]

\* the Add Route button of the main window; when the dialog opens, the user
\* picks an interface, fills the form and presses Add Route
show_add_route_dialog ==
    /\ MainWindowIdle
    /\ IF ~is_admin
       THEN stack' = <<[fn |-> "show_add_route_dialog", pc |-> "msg_admin", loc |-> <<>>]>>
       ELSE /\ Len(added_routes) < MaxLedger
            /\ Len(audit_log) < MaxLog
            /\ \E dest_entry \in AddDestInputs, mask_entry \in AddMaskInputs,
                  gateway_entry \in AddGatewayInputs, i \in 1..Len(interfaces),
                  persistent \in BOOLEAN :
                  stack' = <<do_add(dest_entry, mask_entry, gateway_entry,
                                    interfaces[i], persistent)>>
    /\ UNCHANGED <<fixed, interfaces, all_routes_data, polling,
                   ledger, view>>

\* faulty variant of do_add_confirm: the answer of askyesno is not looked at
do_add_confirm_ignored ==
    /\ Running("do_add", "confirm")
    /\ \E yes \in BOOLEAN :
          stack' = SetTop([Top EXCEPT !.pc = "run", !.loc.confirmed = yes])
    /\ UNCHANGED <<fixed, interfaces, all_routes_data, polling,
                   ledger, view>>

\* messagebox.askyesno("Confirm", "This route will persist across reboots. Continue?")
do_add_confirm ==
    /\ Running("do_add", "confirm")
    /\ \E yes \in BOOLEAN :
          stack' = IF yes
                   THEN SetTop([Top EXCEPT !.pc = "run", !.loc.confirmed = TRUE])
                   ELSE Pop
    /\ UNCHANGED <<fixed, interfaces, all_routes_data, polling,
                   ledger, view>>

\* the record do_add builds
route_record(loc, timestamp) ==
    [destination |-> loc.dest, mask |-> loc.mask, gateway |-> loc.gateway,
     interface |-> iface_name(loc.interface_var),
     persistent |-> IF loc.persistent THEN "Yes" ELSE "No",
     timestamp |-> timestamp]

\* faulty variant of do_add_run: the record is appended before the exit code is looked at
do_add_run_append_unchecked ==
    /\ Running("do_add", "run")
    /\ \E result \in CommandResults, logged \in BOOLEAN, timestamp \in Timestamps :
          IF result = "raised" \/ ~logged
          THEN /\ stack' = SetTop([Top EXCEPT !.pc = "msg_exc", !.loc.result = result])
               /\ UNCHANGED <<added_routes, audit_log>>
          ELSE /\ audit_log' = log_command(add_cmd(Top.loc), result = "0")
               /\ added_routes' = Append(added_routes, route_record(Top.loc, timestamp))
               /\ stack' = SetTop([Top EXCEPT !.pc = IF result = "0" THEN "save" ELSE "msg_fail",
                                              !.loc.result = result])
    /\ UNCHANGED <<is_admin, published, interfaces, all_routes_data, ledger_file, polling, view>>

\* subprocess.run(cmd), log_command, and on exit code 0 the append
do_add_run ==
    /\ Running("do_add", "run")
    /\ \E result \in CommandResults, logged \in BOOLEAN, timestamp \in Timestamps :
          IF result = "raised" \/ ~logged
          THEN /\ stack' = SetTop([Top EXCEPT !.pc = "msg_exc", !.loc.result = result])
               /\ UNCHANGED <<added_routes, audit_log>>
          ELSE IF result = "0"
          THEN /\ audit_log' = log_command(add_cmd(Top.loc), TRUE)
               /\ added_routes' = Append(added_routes, route_record(Top.loc, timestamp))
               /\ stack' = SetTop([Top EXCEPT !.pc = "save", !.loc.result = result])
          ELSE /\ audit_log' = log_command(add_cmd(Top.loc), FALSE)
               /\ stack' = SetTop([Top EXCEPT !.pc = "msg_fail", !.loc.result = result])
               /\ UNCHANGED added_routes
    /\ UNCHANGED <<is_admin, published, interfaces, all_routes_data, ledger_file, polling, view>>

\* showinfo is dismissed: dialog.destroy(); self.refresh_routes()
do_add_success ==
    /\ Running("do_add", "msg_success")
    /\ stack' = SetTop(At("return")) \o <<RefreshFrame>>
    /\ UNCHANGED <<fixed, interfaces, all_routes_data, polling, ledger, view>>

do_add_return ==
    /\ Running("do_add", "return")
    /\ stack' = Pop
    /\ UNCHANGED <<fixed, interfaces, all_routes_data, polling,
                   ledger, view>>

(***************************************************************************)
(* Mutation Gateway: the Delete Route dialog                               *)
(***************************************************************************)
do_delete(dest_entry) ==
    LET dest == strip(dest_entry)
    IN  IF dest = "" \/ ~validate_ipv4(dest)
        THEN [fn |-> "do_delete", pc |-> "msg_invalid", loc |-> <<>>]
        ELSE [fn |-> "do_delete", pc |-> "confirm",
              loc |-> [dest |-> dest, confirmed |-> FALSE, result |-> "none",
                       ledger_at_entry |-> <<added_routes, ledger_file>>]]

\* faulty variant of show_delete_route_dialog: the dialog opens without the
\* self.is_admin test
show_delete_route_dialog_unchecked ==
    /\ MainWindowIdle
    /\ Len(audit_log) < MaxLog
    /\ \E dest_entry \in DeleteDestInputs : stack' = <<do_delete(dest_entry)>>
    /\ UNCHANGED <<fixed, interfaces, all_routes_data, polling,
                   ledger, view>>

\* the Delete Route button or a double click on a row; when the dialog opens,
\* the user edits the destination and presses Delete
show_delete_route_dialog ==
    /\ MainWindowIdle
    /\ IF ~is_admin
       THEN stack' = <<[fn |-> "show_delete_route_dialog", pc |-> "msg_admin", loc |-> <<>>]>>
       ELSE /\ Len(audit_log) < MaxLog
            /\ \E dest_entry \in DeleteDestInputs : stack' = <<do_delete(dest_entry)>>
    /\ UNCHANGED <<fixed, interfaces, all_routes_data, polling,
                   ledger, view>>

\* faulty variant of do_delete_confirm: the answer of askyesno is not looked at
do_delete_confirm_ignored ==
    /\ Running("do_delete", "confirm")
    /\ \E yes \in BOOLEAN :
          stack' = SetTop([Top EXCEPT !.pc = "run", !.loc.confirmed = yes])
    /\ UNCHANGED <<fixed, interfaces, all_routes_data, polling,
                   ledger, view>>

\* messagebox.askyesno("Confirm", "Delete route to ...?")
do_delete_confirm ==
    /\ Running("do_delete", "confirm")
    /\ \E yes \in BOOLEAN :
          stack' = IF yes
                   THEN SetTop([Top EXCEPT !.pc = "run", !.loc.confirmed = TRUE])
                   ELSE Pop
    /\ UNCHANGED <<fixed, interfaces, all_routes_data, polling,
                   ledger, view>>

\* faulty variant of do_delete_run: a successful delete drops the ledger records of dest
do_delete_run_prunes_ledger ==
    /\ Running("do_delete", "run")
    /\ \E result \in CommandResults, logged \in BOOLEAN :
          /\ stack' = SetTop([Top EXCEPT
                                !.pc = IF result = "raised" \/ ~logged THEN "msg_exc"
                                       ELSE IF result = "0" THEN "msg_success"
                                       ELSE "msg_fail",
                                !.loc.result = result])
          /\ added_routes' =
                IF result = "0" /\ logged
                THEN SelectSeq(added_routes, LAMBDA r : r.destination # Top.loc.dest)
                ELSE added_routes
          /\ audit_log' =
                IF result # "raised" /\ logged
                THEN log_command(delete_cmd(Top.loc), result = "0")
                ELSE audit_log
    /\ UNCHANGED <<is_admin, published, interfaces, all_routes_data, polling, ledger_file, view>>

\* subprocess.run(["route", "delete", dest]) and log_command
do_delete_run ==
    /\ Running("do_delete", "run")
    /\ \E result \in CommandResults, logged \in BOOLEAN :
          stack' = SetTop([Top EXCEPT
                             !.pc = IF result = "raised" \/ ~logged THEN "msg_exc"
                                    ELSE IF result = "0" THEN "msg_success"
                                    ELSE "msg_fail",
                             !.loc.result = result])
          /\ audit_log' =
                IF result # "raised" /\ logged
                THEN log_command(delete_cmd(Top.loc), result = "0")
                ELSE audit_log
    /\ UNCHANGED <<is_admin, published, interfaces, all_routes_data, polling,
                   ledger, view>>

\* showinfo is dismissed: dialog.destroy(); self.refresh_routes()
do_delete_success ==
    /\ Running("do_delete", "msg_success")
    /\ stack' = SetTop(At("return")) \o <<RefreshFrame>>
    /\ UNCHANGED <<fixed, interfaces, all_routes_data, polling, ledger, view>>

do_delete_return ==
    /\ Running("do_delete", "return")
    /\ stack' = Pop
    /\ UNCHANGED <<fixed, interfaces, all_routes_data, polling,
                   ledger, view>>

(***************************************************************************)
(* Route History dialog: clear_history                                     *)
(***************************************************************************)
\* the history dialog is opened and Clear History is pressed
clear_history ==
    /\ MainWindowIdle
    /\ stack' = <<[fn |-> "clear_history", pc |-> "confirm",
                   loc |-> [ledger_at_entry |-> <<added_routes, ledger_file>>]]>>
    /\ UNCHANGED <<fixed, interfaces, all_routes_data, polling,
                   ledger, view>>

\* messagebox.askyesno("Confirm", "Clear route history?"); self.added_routes = []
clear_history_confirm ==
    /\ Running("clear_history", "confirm")
    /\ \E yes \in BOOLEAN :
          IF yes
          THEN /\ added_routes' = <<>>
               /\ stack' = SetTop(At("save"))
          ELSE /\ stack' = Pop
               /\ UNCHANGED added_routes
    /\ UNCHANGED <<fixed, interfaces, all_routes_data, ledger_file, polling, view>>

(***************************************************************************)
(* The process is killed and started again                                 *)
(***************************************************************************)
Crash ==
    /\ UNCHANGED <<ledger_file, audit_log>>
    /\ interfaces' = <<>>
    /\ added_routes' = load_added_routes(ledger_file)
    /\ is_admin' \in BOOLEAN
    /\ auto_refresh_enabled' = TRUE
    /\ auto_refresh_var' = TRUE
    /\ auto_refresh_job' = 0
    /\ all_routes_data' = <<>>
    /\ published' = <<>>
    /\ current_filter' = "all"
    /\ tab_counts' = [all |-> 0, persistent |-> 0, temporary |-> 0]
    /\ tree_rows' = <<>>
    /\ timers' = {}
    /\ stack' = <<[fn |-> "__init__", pc |-> "refresh_interfaces", loc |-> <<>>]>>

Next ==
    \/ refresh_routes_run
    \/ get_persistent_routes
    \/ refresh_routes_clear
    \/ refresh_routes_append
    \/ refresh_routes_publish
    \/ refresh_routes_return
    \/ auto_refresh_tick
    \/ auto_refresh_tick_schedule
    \/ toggle_auto_refresh
    \/ refresh_all
    \/ refresh_all_return
    \/ \E tab_id \in Filters : switch_tab(tab_id)
    \/ init_refresh
    \/ init_start_auto_refresh
    \/ init_return
    \/ save_added_routes_open
    \/ save_added_routes_dump
    \/ show_add_route_dialog
    \/ show_delete_route_dialog
    \/ showerror_return
    \/ do_add_confirm
    \/ do_add_run
    \/ do_add_success
    \/ do_add_return
    \/ do_delete_confirm
    \/ do_delete_run
    \/ do_delete_success
    \/ do_delete_return
    \/ clear_history
    \/ clear_history_confirm

Spec == Init /\ [][Next]_vars

NextCrash == Next \/ Crash

SpecCrash == Init /\ [][NextCrash]_vars

(***************************************************************************)
(* Scheduling.  Everything runs on the Tk main thread: once a callback is  *)
(* called its code runs on, statement after statement, and a subprocess.run*)
(* returns or raises within its timeout; an expired timer gets its turn    *)
(* whenever the event loop runs, in the main window or under a messagebox. *)
(* When the user presses a button or answers a messagebox is up to them.   *)
(***************************************************************************)
\* the steps that are code running on
Synchronous ==
    \/ init_refresh
    \/ init_start_auto_refresh
    \/ init_return
    \/ refresh_routes_run
    \/ get_persistent_routes
    \/ refresh_routes_clear
    \/ refresh_routes_append
    \/ refresh_routes_publish
    \/ refresh_routes_return
    \/ auto_refresh_tick_schedule
    \/ refresh_all_return
    \/ save_added_routes_open
    \/ save_added_routes_dump
    \/ do_add_run
    \/ do_add_return
    \/ do_delete_run
    \/ do_delete_return

Fairness == WF_vars(Synchronous) /\ SF_vars(auto_refresh_tick)

SpecFair == Spec /\ Fairness

(***************************************************************************)
(* The module-level functions called on their own: one call is on the      *)
(* stack, with its argument, and the step of the call replaces it by the   *)
(* returned frame.  Nothing else of the application moves.                 *)
(***************************************************************************)
Join(groups) ==
    groups[1] \o "." \o groups[2] \o "." \o groups[3] \o "." \o groups[4]

IpGroups == {"0", "255", "256", "007", "1a", "", "1234"}

\* four groups, fewer and more groups, padded and broken strings
IpInputs ==
    {Join(g) : g \in [1..4 -> IpGroups]}
        \cup {"1.2.3", "255.255", "7", "", "1.2.3.4.5", "1.2.3.4.", ".1.2.3.4"}
        \cup {" 10.0.0.0", "10.0.0.0 ", "\t10.0.0.0\r\n", "10.0 .0.0", "10.0.0.0\n1"}

MaskGroups == {"0", "128", "254", "255", "1", "000"}

MaskInputs ==
    {Join(g) : g \in [1..4 -> MaskGroups]}
        \cup {"255.255.255", "255.255.255.256", " 255.255.0.0\n", "255.0.0.0.0", ""}

\* '\n'.join(lines)
RECURSIVE JoinLines(_)
JoinLines(lines) ==
    IF Len(lines) = 0 THEN ""
    ELSE IF Len(lines) = 1 THEN lines[1]
    ELSE lines[1] \o "\n" \o JoinLines(Tail(lines))

\* lines of a route print: the two markers, a column header of each section,
\* a separator, a blank line, route rows of 5, 6 and 4 fields, and None
OutputLines ==
    {"Active Routes:",
     "Persistent Routes:",
     "Network Destination Netmask Gateway Interface Metric",
     "====",
     "  ",
     "  0.0.0.0 0.0.0.0 192.168.1.1 192.168.1.5 25",
     "  0.0.0.0 0.0.0.0 192.168.1.1 10.0.0.5 35 extra",
     "  10.0.0.0 255.0.0.0 10.0.0.1 1",
     "  Network Address Netmask Gateway Address Metric",
     "  None"}

MaxLines == 3

OutputInputs ==
    {JoinLines(ls) : ls \in UNION {[1..n -> OutputLines] : n \in 0..MaxLines}}

(***************************************************************************)
(* The ledger file as text: json.dump(routes, f, indent=2) writes it and   *)
(* json.load(f) reads it.  The texts are those of lists of records whose   *)
(* values are strings, which is what do_add puts in the ledger.            *)
(***************************************************************************)
\* the body of a JSON string for s: quotes, backslashes and control characters escaped
RECURSIVE json_escape(_)
json_escape(s) ==
    IF Len(s) = 0 THEN ""
    ELSE LET c == Char(s, 1)
             e == CASE c = "\"" -> "\\\""
                    [] c = "\\" -> "\\\\"
                    [] c = "\n" -> "\\n"
                    [] c = "\t" -> "\\t"
                    [] c = "\r" -> "\\r"
                    [] OTHER -> c
         IN  e \o json_escape(Tail(s))

\* faulty variant of json_string: the string is written between quotes as it is
json_string_unescaped(s) == "\"" \o s \o "\""

json_string(s) == "\"" \o json_escape(s) \o "\""

\* the keys of a record in the order do_add inserts them
RecordKeys == <<"destination", "mask", "gateway", "interface", "persistent", "timestamp">>

\* the members of record r from key n on, one per line at indent 4
RECURSIVE json_dump_members(_, _)
json_dump_members(r, n) ==
    LET member == "    " \o json_string(RecordKeys[n]) \o ": " \o json_string(r[RecordKeys[n]])
    IN  IF n = Len(RecordKeys) THEN member
        ELSE member \o ",\n" \o json_dump_members(r, n + 1)

\* the elements of routes from element n on, each an object at indent 2
RECURSIVE json_dump_elements(_, _)
json_dump_elements(routes, n) ==
    LET element == "  {\n" \o json_dump_members(routes[n], 1) \o "\n  }"
    IN  IF n = Len(routes) THEN element
        ELSE element \o ",\n" \o json_dump_elements(routes, n + 1)

\* the text json.dump(routes, f, indent=2) writes
json_dump(routes) ==
    IF Len(routes) = 0 THEN "[]"
    ELSE "[\n" \o json_dump_elements(routes, 1) \o "\n]"

\* the character of t at position i, "" past the end
json_peek(t, i) == IF i \in 1..Len(t) THEN Char(t, i) ELSE ""

\* the first position at or after i that holds no whitespace
RECURSIVE json_skip_ws(_, _)
json_skip_ws(t, i) ==
    IF json_peek(t, i) \in Whitespace THEN json_skip_ws(t, i + 1) ELSE i

\* a decoding that raised
JsonError == [ok |-> FALSE, pos |-> 0, value |-> <<>>]

\* the string whose body starts at position i of t, acc being what was read of it
RECURSIVE json_scanstring(_, _, _)
json_scanstring(t, i, acc) ==
    LET c == json_peek(t, i)
        e == json_peek(t, i + 1)
    IN  IF c = "" \/ c \in {"\n", "\t", "\r"} THEN JsonError
        ELSE IF c = "\"" THEN [ok |-> TRUE, pos |-> i + 1, value |-> acc]
        ELSE IF c # "\\" THEN json_scanstring(t, i + 1, acc \o c)
        ELSE IF e \in {"\"", "\\", "/"} THEN json_scanstring(t, i + 2, acc \o e)
        ELSE IF e = "n" THEN json_scanstring(t, i + 2, acc \o "\n")
        ELSE IF e = "t" THEN json_scanstring(t, i + 2, acc \o "\t")
        ELSE IF e = "r" THEN json_scanstring(t, i + 2, acc \o "\r")
        ELSE JsonError

\* the dict of a sequence of key and value pairs: a later pair of a key wins
json_dict(pairs) ==
    [k \in {pairs[n][1] : n \in DOMAIN pairs} |->
        LET last == CHOOSE n \in DOMAIN pairs :
                       /\ pairs[n][1] = k
                       /\ \A m \in DOMAIN pairs : pairs[m][1] = k => m <= n
        IN  pairs[last][2]]

\* the members of an object from position i of t on, pairs being those read
RECURSIVE json_members(_, _, _)
json_members(t, i, pairs) ==
    IF json_peek(t, i) # "\"" THEN JsonError
    ELSE LET key == json_scanstring(t, i + 1, "")
         IN  IF ~key.ok THEN JsonError
             ELSE LET colon == json_skip_ws(t, key.pos)
                      quote == json_skip_ws(t, colon + 1)
                  IN  IF json_peek(t, colon) # ":" \/ json_peek(t, quote) # "\""
                      THEN JsonError
                      ELSE LET val == json_scanstring(t, quote + 1, "")
                           IN  IF ~val.ok THEN JsonError
                               ELSE LET next == json_skip_ws(t, val.pos)
                                        read == Append(pairs, <<key.value, val.value>>)
                                    IN  IF json_peek(t, next) = ","
                                        THEN json_members(t, json_skip_ws(t, next + 1), read)
                                        ELSE IF json_peek(t, next) = "}"
                                        THEN [ok |-> TRUE, pos |-> next + 1,
                                              value |-> json_dict(read)]
                                        ELSE JsonError

\* the object at position i of t
json_object(t, i) ==
    IF json_peek(t, i) # "{" THEN JsonError
    ELSE LET first == json_skip_ws(t, i + 1)
         IN  IF json_peek(t, first) = "}"
             THEN [ok |-> TRUE, pos |-> first + 1, value |-> <<>>]
             ELSE json_members(t, first, <<>>)

\* the elements of an array from position i of t on, list being those read
RECURSIVE json_elements(_, _, _)
json_elements(t, i, list) ==
    LET element == json_object(t, i)
    IN  IF ~element.ok THEN JsonError
        ELSE LET next == json_skip_ws(t, element.pos)
                 read == Append(list, element.value)
             IN  IF json_peek(t, next) = ","
                 THEN json_elements(t, json_skip_ws(t, next + 1), read)
                 ELSE IF json_peek(t, next) = "]"
                 THEN [ok |-> TRUE, pos |-> next + 1, value |-> read]
                 ELSE JsonError

\* json.load of a file that holds t: ok is FALSE when it raises
json_load(t) ==
    LET start == json_skip_ws(t, 1)
        first == json_skip_ws(t, start + 1)
        array == IF json_peek(t, start) # "[" THEN JsonError
                 ELSE IF json_peek(t, first) = "]"
                 THEN [ok |-> TRUE, pos |-> first + 1, value |-> <<>>]
                 ELSE json_elements(t, first, <<>>)
    IN  IF array.ok /\ json_skip_ws(t, array.pos) = Len(t) + 1
        THEN array
        ELSE JsonError

\* records with plain values, and one whose interface name has a quote, a
\* backslash and a tab in it
LedgerRecords ==
    {[destination |-> "10.0.0.0", mask |-> "255.0.0.0", gateway |-> "10.0.0.1",
      interface |-> "vEthernet", persistent |-> "No",
      timestamp |-> "2026-01-01 00:00:00"],
     [destination |-> "10.1.0.0", mask |-> "255.255.0.0", gateway |-> "10.0.0.1",
      interface |-> "LAN \"a\\b\"\t2", persistent |-> "Yes",
      timestamp |-> "2026-01-01 00:00:01"]}

LedgerInputs == UNION {[1..n -> LedgerRecords] : n \in 0..MaxLedger}

CallFrames ==
    {[fn |-> "validate_ipv4", pc |-> "call", loc |-> [ip |-> s]] : s \in IpInputs}
        \cup {[fn |-> "validate_subnet_mask", pc |-> "call", loc |-> [mask |-> s]] :
                s \in MaskInputs}
        \cup {[fn |-> "save_added_routes", pc |-> "call", loc |-> [routes |-> l]] :
                l \in LedgerInputs}
        \cup {[fn |-> "parse_route_print", pc |-> "call", loc |-> [output |-> s]] :
                s \in OutputInputs}
        \cup {[fn |-> "get_persistent_routes", pc |-> "call", loc |-> [output |-> s]] :
                s \in OutputInputs}

InitCalls ==
    /\ stack \in {<<f>> : f \in CallFrames}
    /\ ledger_file = MissingFile
    /\ audit_log = <<>>
    /\ interfaces = <<>>
    /\ added_routes = <<>>
    /\ is_admin = FALSE
    /\ auto_refresh_enabled = TRUE
    /\ auto_refresh_var = TRUE
    /\ auto_refresh_job = 0
    /\ all_routes_data = <<>>
    /\ published = <<>>
    /\ current_filter = "all"
    /\ tab_counts = [all |-> 0, persistent |-> 0, temporary |-> 0]
    /\ tree_rows = <<>>
    /\ timers = {}

\* the call on the stack returns result
Returns(result) ==
    /\ stack' = <<[fn |-> Top.fn, pc |-> "return",
                   loc |-> [arg |-> Top.loc, result |-> result]]>>
    /\ UNCHANGED <<fixed, interfaces, all_routes_data, polling, ledger, view>>

call_validate_ipv4 ==
    /\ Running("validate_ipv4", "call")
    /\ Returns(validate_ipv4(Top.loc.ip))

call_validate_subnet_mask ==
    /\ Running("validate_subnet_mask", "call")
    /\ Returns(validate_subnet_mask(Top.loc.mask))

call_parse_route_print ==
    /\ Running("parse_route_print", "call")
    /\ Returns(parse_route_print(Top.loc.output))

\* get_persistent_routes from the split of the stdout of its route print on
call_get_persistent_routes ==
    /\ Running("get_persistent_routes", "call")
    /\ Returns(parse_persistent(Top.loc.output))

\* save_added_routes(routes) with no ledger file yet, and then the next start
\* of the program: open() raises and there is still no file, or the file is
\* there and holds what json.dump wrote of its text before it returned or raised
call_save_added_routes ==
    /\ Running("save_added_routes", "call")
    /\ LET text == json_dump(Top.loc.routes)
       IN  \E opened \in BOOLEAN, written \in 0..Len(text) :
              stack' = <<[fn |-> "load_added_routes", pc |-> "call",
                          loc |-> [saved |-> Top.loc.routes,
                                   exists |-> opened,
                                   text |-> IF opened THEN SubSeq(text, 1, written) ELSE "",
                                   complete |-> opened /\ written = Len(text)]]>>
    /\ UNCHANGED <<fixed, interfaces, all_routes_data, polling, ledger, view>>

\* load_added_routes() on the file the frame describes
call_load_added_routes ==
    /\ Running("load_added_routes", "call")
    /\ LET decoded == json_load(Top.loc.text)
       IN  Returns(IF Top.loc.exists /\ decoded.ok THEN decoded.value ELSE <<>>)

NextCalls ==
    \/ call_save_added_routes
    \/ call_load_added_routes
    \/ call_validate_ipv4
    \/ call_validate_subnet_mask
    \/ call_parse_route_print
    \/ call_get_persistent_routes

SpecCalls == InitCalls /\ [][NextCalls]_vars

(***************************************************************************)
(* Properties                                                              *)
(***************************************************************************)
\* the calls of fn that are on the stack
Frames(fn) == {i \in DOMAIN stack : stack[i].fn = fn}

\* C1: a refresh cycle in which a route print failed (non-zero exit, timeout,
\* spawn error) aborts: it ends where the early return is, with the snapshot
\* that was there when the cycle began, and shows no messagebox.
C1_FailedFetchKeepsSnapshot ==
    \A i \in Frames("refresh_routes") :
        /\ stack[i].pc \notin MessageBoxPcs
        /\ (stack[i].loc.fetch_failed /\ stack[i].pc \in {"return", "published"})
              => /\ stack[i].pc = "return"
                 /\ all_routes_data = stack[i].loc.snapshot_at_entry

\* C2: whenever a callback can run (the main loop is idle, or a messagebox is
\* serving timers) the snapshot is the one the last completed rebuild
\* produced, never the emptied or partly filled list of a rebuild under way.
C2_ReadersSeeCompleteSnapshot ==
    TimersServed => all_routes_data = published

\* C2 witness: a callback can run inside a messagebox, after a rebuild has
\* replaced the snapshot by a complete two-row one
C2_Witness ==
    /\ stack # <<>>
    /\ Top.pc \in MessageBoxPcs
    /\ Len(all_routes_data) = 2
    /\ all_routes_data = published

\* C3: at most one refresh cycle is in flight, whatever mix of poll ticks,
\* manual refreshes and refreshes after add/delete is requested.
C3_OneCycleInFlight ==
    Cardinality(Frames("refresh_routes")) <= 1

\* C3 witness: a poll tick is due while the cycle of a manual refresh or of an
\* add/delete is between its two route prints
C3_Witness ==
    /\ timers # {}
    /\ \E i \in Frames("refresh_routes") :
          /\ stack[i].pc = "get_persistent"
          /\ i > 1
          /\ stack[i - 1].fn \in {"refresh_all", "do_add", "do_delete"}

\* C4: in the snapshot a cycle has just published, an entry is tagged "Yes"
\* exactly when its destination is in the persistent set the cycle parsed,
\* well-known destinations included.
C4_YesIffPersistent ==
    \A i \in Frames("refresh_routes") :
        stack[i].pc = "published" =>
            /\ Len(all_routes_data) = Len(stack[i].loc.routes)
            /\ \A k \in 1..Len(all_routes_data) :
                  /\ all_routes_data[k].destination = stack[i].loc.routes[k].destination
                  /\ (all_routes_data[k].persistent = "Yes")
                        <=> (all_routes_data[k].destination \in stack[i].loc.persistent_routes)

\* C4 witness: 0.0.0.0 is in the persistent section and is published as "Yes"
C4_Witness ==
    \E i \in Frames("refresh_routes") :
        /\ stack[i].pc = "published"
        /\ "0.0.0.0" \in stack[i].loc.persistent_routes
        /\ \E k \in 1..Len(all_routes_data) :
              /\ all_routes_data[k].destination = "0.0.0.0"
              /\ all_routes_data[k].persistent = "Yes"

\* C5: in the snapshot a cycle has just published, every tag is Yes, No or
\* Unknown; Unknown only for 0.0.0.0, 127.0.0.0, 127.0.0.1, 224.0.0.0 and
\* 255.255.255.255 outside the persistent set; every other destination
\* outside the persistent set is No.
C5_TagsTotal ==
    \A i \in Frames("refresh_routes") :
        stack[i].pc = "published" =>
            \A k \in 1..Len(all_routes_data) :
                LET e == all_routes_data[k]
                    listed == e.destination \in {"0.0.0.0", "127.0.0.0", "127.0.0.1",
                                                  "224.0.0.0", "255.255.255.255"}
                    member == e.destination \in stack[i].loc.persistent_routes
                IN  /\ e.persistent \in {"Yes", "No", "Unknown"}
                    /\ e.persistent = "Unknown" => (listed /\ ~member)
                    /\ (~member /\ ~listed) => e.persistent = "No"

\* C5 witness: a published snapshot with an Unknown and a No entry
C5_Witness ==
    \E i \in Frames("refresh_routes") :
        /\ stack[i].pc = "published"
        /\ \E k, m \in 1..Len(all_routes_data) :
              /\ all_routes_data[k].persistent = "Unknown"
              /\ all_routes_data[m].persistent = "No"

\* a do_add / do_delete call that got as far as running its command
Ran(f) == f.fn \in {"do_add", "do_delete"} /\ f.pc # "msg_invalid" /\ f.loc.result # "none"

\* the name of the interface picked in the dialog of a do_add call
SelectedName(loc) ==
    (CHOOSE f \in {interfaces[k] : k \in DOMAIN interfaces} : f.index = loc.ifindex).name

\* C6: once the add command of a do_add call has exited with status zero, the
\* ledger is the ledger the call found plus exactly one record at its end, and
\* that record carries the submitted destination, mask, gateway, the label of
\* the picked interface and the persistence flag.
C6_ZeroExitAppendsOneRecord ==
    \A i \in Frames("do_add") :
        (Ran(stack[i]) /\ stack[i].loc.result = "0") =>
            LET loc == stack[i].loc
                before == loc.ledger_at_entry[1]
            IN  /\ Len(added_routes) = Len(before) + 1
                /\ SubSeq(added_routes, 1, Len(before)) = before
                /\ LET r == added_routes[Len(added_routes)]
                   IN  /\ r.destination = loc.dest
                       /\ r.mask = loc.mask
                       /\ r.gateway = loc.gateway
                       /\ r.interface = SelectedName(loc)
                       /\ r.persistent = (IF loc.persistent THEN "Yes" ELSE "No")

\* a do_add call whose command exited non-zero, timed out or did not spawn
FailedAdd(f) == f.fn = "do_add" /\ Ran(f) /\ f.loc.result \in {"1", "raised"}

\* C7: when the add command exits non-zero, times out or fails to spawn, the
\* call ends in its error messagebox: the ledger in memory and on disk is the
\* one the call found, no step of the call changes the snapshot, nothing is
\* saved and the call starts no refresh.
C7_FailedAddLeavesState ==
    [][ /\ \A i \in DOMAIN stack' :
              FailedAdd(stack'[i]) =>
                  /\ <<added_routes', ledger_file'>> = stack'[i].loc.ledger_at_entry
                  /\ stack'[i].pc \in {"msg_fail", "msg_exc"}
                  /\ (i < Len(stack')) => stack'[i + 1].fn = "auto_refresh_tick"
                  /\ (i = Len(stack') /\ i = Len(stack)) => UNCHANGED all_routes_data
        /\ (stack # <<>> /\ FailedAdd(Top) /\ Len(stack') < Len(stack)) =>
              UNCHANGED <<added_routes, ledger_file, all_routes_data>>
      ]_vars

\* C7 witness: the error messagebox of an add whose command exited non-zero,
\* with a record in the ledger and a snapshot on display
C7_Witness ==
    /\ stack # <<>>
    /\ FailedAdd(Top)
    /\ Top.loc.result = "1"
    /\ added_routes # <<>>
    /\ ledger_file = ValidFile(added_routes)
    /\ all_routes_data # <<>>

\* C8: from the press of Delete to the end of the call, whatever the command's
\* outcome or the answer to the confirmation, no step changes the ledger in
\* memory or on disk, also when the destination is that of a ledger record.
C8_DeleteKeepsLedger ==
    [][ /\ (Frames("do_delete") # {} \/ Frames("do_delete")' # {}) =>
              UNCHANGED <<added_routes, ledger_file>>
        /\ \A i \in DOMAIN stack' :
              (stack'[i].fn = "do_delete" /\ stack'[i].pc # "msg_invalid") =>
                  <<added_routes', ledger_file'>> = stack'[i].loc.ledger_at_entry
      ]_vars

\* C8 witness: a delete command has exited with status zero for a destination
\* that a ledger record carries
C8_Witness ==
    \E i \in Frames("do_delete") :
        /\ Ran(stack[i])
        /\ stack[i].loc.result = "0"
        /\ stack[i].pc \in {"msg_success", "return"}
        /\ \E k \in DOMAIN added_routes :
              added_routes[k].destination = stack[i].loc.dest

\* after is before, or before with one record more at its end
SameOrOneMore(before, after) ==
    \/ after = before
    \/ /\ Len(after) = Len(before) + 1
       /\ SubSeq(after, 1, Len(before)) = before

\* C9: every step leaves the ledger in memory unchanged, one record longer at
\* its end, or emptied by the confirmed clear; and whenever an add or delete
\* hands control back (a messagebox, its return), the persisted ledger is the
\* one the call found or that one with one record more at its end.
C9_LedgerAppendOnly ==
    [][ /\ \/ SameOrOneMore(added_routes, added_routes')
           \/ /\ added_routes' = <<>>
              /\ Running("clear_history", "confirm")
        /\ \A i \in DOMAIN stack' :
              (Ran(stack'[i]) /\ stack'[i].pc \notin {"save", "dump"}) =>
                  SameOrOneMore(load_added_routes(stack'[i].loc.ledger_at_entry[2]),
                                load_added_routes(ledger_file'))
      ]_vars

\* C10: when the process is killed while a do_add call whose command exited
\* with status zero is still running, the ledger loaded by the next start
\* holds the record of that add and every record that was persisted when the
\* call began.
C10_CrashKeepsAddedRecord ==
    [][ Crash =>
          \A i \in Frames("do_add") :
              (Ran(stack[i]) /\ stack[i].loc.result = "0") =>
                  LET loc == stack[i].loc
                      persisted == load_added_routes(loc.ledger_at_entry[2])
                  IN  /\ \A k \in DOMAIN persisted :
                            \E m \in DOMAIN added_routes' : added_routes'[m] = persisted[k]
                      /\ \E m \in DOMAIN added_routes' :
                            /\ m > Len(persisted)
                            /\ added_routes'[m].destination = loc.dest
                            /\ added_routes'[m].mask = loc.mask
                            /\ added_routes'[m].gateway = loc.gateway
                            /\ added_routes'[m].persistent = (IF loc.persistent THEN "Yes" ELSE "No")
      ]_vars

\* C11: when the process is not elevated, a press of Add Route or Delete Route
\* ends in the Administrator Required messagebox: the dialogs' handlers never
\* run (so no route command is issued), the audit log and the ledger stay as
\* they are, and the steps of the request leave the snapshot alone.
C11_NotElevatedFailsFirst ==
    [][ ~is_admin =>
          LET request == \/ (stack # <<>> /\ stack[1].pc = "msg_admin")
                         \/ (stack' # <<>> /\ stack'[1].pc = "msg_admin")
          IN  /\ UNCHANGED audit_log
              /\ \A i \in DOMAIN stack' :
                    /\ stack'[i].fn \notin {"do_add", "do_delete"}
                    /\ stack'[i].fn \in {"show_add_route_dialog", "show_delete_route_dialog"}
                          => stack'[i].pc = "msg_admin"
              /\ request => UNCHANGED <<added_routes, ledger_file>>
              /\ (request /\ Len(stack) <= 1 /\ Len(stack') <= 1)
                    => UNCHANGED all_routes_data
      ]_vars

\* C11 witness: not elevated, Delete Route was pressed with a snapshot on display
C11_Witness ==
    /\ ~is_admin
    /\ stack # <<>>
    /\ Top.fn = "show_delete_route_dialog"
    /\ Top.pc = "msg_admin"
    /\ all_routes_data # <<>>

\* C12: an add whose destination, mask or gateway does not validate (an empty
\* gateway included) and a delete whose destination does not validate end in
\* the error messagebox straight from the button press: only requests whose
\* fields validate get to the confirmation or the command, and a rejected
\* request leaves the audit log, the ledger and the snapshot as they are.
C12_InvalidRejectedFirst ==
    [][ /\ \A i \in DOMAIN stack' :
              LET f == stack'[i]
                  pressed == stack = <<>>
              IN  /\ (pressed /\ f.fn = "do_add" /\ f.pc # "msg_invalid") =>
                        /\ validate_ipv4(f.loc.dest)
                        /\ validate_subnet_mask(f.loc.mask)
                        /\ f.loc.gateway # ""
                        /\ validate_ipv4(f.loc.gateway)
                  /\ (pressed /\ f.fn = "do_delete" /\ f.pc # "msg_invalid") =>
                        validate_ipv4(f.loc.dest)
                  /\ (~pressed /\ f.fn \in {"do_add", "do_delete"}) =>
                        /\ i \in DOMAIN stack
                        /\ stack[i].fn = f.fn
                        /\ stack[i].pc # "msg_invalid" => f.loc = [stack[i].loc EXCEPT !.result = f.loc.result,
                                                         !.confirmed = f.loc.confirmed]
                  /\ (f.fn \in {"do_add", "do_delete"} /\ f.pc = "msg_invalid") =>
                        /\ i = 1
                        /\ pressed \/ stack[1] = f
        /\ LET rejected == \/ (stack # <<>> /\ stack[1].pc = "msg_invalid")
                            \/ (stack' # <<>> /\ stack'[1].pc = "msg_invalid")
           IN  /\ rejected => UNCHANGED <<audit_log, added_routes, ledger_file>>
               /\ (rejected /\ Len(stack) <= 1 /\ Len(stack') <= 1)
                     => UNCHANGED all_routes_data
      ]_vars

\* C12 witness: an add was rejected for its fields, with a snapshot on display
C12_Witness ==
    /\ stack # <<>>
    /\ Top.fn = "do_add"
    /\ Top.pc = "msg_invalid"
    /\ all_routes_data # <<>>

\* the do_add / do_delete call in frame i ran its command in this step
Issues(i) ==
    /\ i \in DOMAIN stack /\ i \in DOMAIN stack'
    /\ stack[i].fn \in {"do_add", "do_delete"} /\ stack[i].pc # "msg_invalid"
    /\ stack'[i].fn = stack[i].fn /\ stack'[i].pc # "msg_invalid"
    /\ stack[i].loc.result = "none" /\ stack'[i].loc.result # "none"

\* the top call ends at its confirmation in this step
Declines(fn) ==
    /\ Running(fn, "confirm")
    /\ Len(stack') < Len(stack)

\* C13: a persistent add is asked about at the press of Add Route and runs its
\* command only with the answer yes; a declined confirmation ends the call
\* with no command, and the ledger, the audit log and the snapshot as they
\* were; a non-persistent add is never asked and goes straight to the command.
C13_PersistentAddConfirmed ==
    [][ /\ \A i \in DOMAIN stack' :
              LET f == stack'[i]
              IN  (f.fn = "do_add" /\ f.pc # "msg_invalid") =>
                      /\ stack = <<>> => f.pc = (IF f.loc.persistent THEN "confirm" ELSE "run")
                      /\ f.pc = "confirm" => (f.loc.persistent /\ ~f.loc.confirmed)
                      /\ f.loc.confirmed => f.loc.persistent
                      /\ (Issues(i) /\ f.loc.persistent) =>
                            (stack[i].loc.confirmed /\ stack[i].pc = "run")
                      /\ (Issues(i) /\ ~f.loc.persistent) => stack[i].pc = "run"
        /\ Declines("do_add") =>
              /\ Top.loc.result = "none"
              /\ UNCHANGED <<audit_log, added_routes, ledger_file, all_routes_data>>
      ]_vars

\* C13 witness: a confirmed persistent add has run its command
C13_Witness ==
    /\ stack # <<>>
    /\ Top.fn = "do_add"
    /\ Top.pc = "msg_success"
    /\ Top.loc.persistent
    /\ Top.loc.confirmed
    /\ Top.loc.result = "0"

\* C14: a delete is asked about only when its destination validates, and runs
\* its command only with the answer yes; a declined confirmation ends the call
\* with no command and changes nothing.
C14_DeleteValidatedThenConfirmed ==
    [][ /\ \A i \in DOMAIN stack' :
              LET f == stack'[i]
              IN  (f.fn = "do_delete" /\ f.pc # "msg_invalid") =>
                      /\ stack = <<>> => (f.pc = "confirm" /\ validate_ipv4(f.loc.dest))
                      /\ f.pc = "confirm" => ~f.loc.confirmed
                      /\ Issues(i) => (stack[i].loc.confirmed /\ stack[i].pc = "run")
        /\ Declines("do_delete") =>
              /\ Top.loc.result = "none"
              /\ UNCHANGED <<audit_log, added_routes, ledger_file, all_routes_data,
                             interfaces, polling, view>>
      ]_vars

\* C14 witness: a confirmed delete has run its command
C14_Witness ==
    /\ stack # <<>>
    /\ Top.fn = "do_delete"
    /\ Top.pc \in {"msg_success", "msg_fail"}
    /\ Top.loc.confirmed
    /\ Top.loc.result \in {"0", "1"}

\* C15: a do_add or do_delete call whose command exited with status zero ends
\* only at its return after self.refresh_routes(), whether or not the ledger
\* was saved.
C15_ZeroExitThenRefresh ==
    [][ \A i \in DOMAIN stack :
            (Ran(stack[i]) /\ stack[i].loc.result = "0" /\ i \notin DOMAIN stack')
                => stack[i].pc = "return"
      ]_vars

\* the top call is at a subprocess.run of a route command
AtCommand ==
    /\ stack # <<>>
    /\ \/ Top.fn = "refresh_routes" /\ Top.pc \in {"run", "get_persistent"}
       \/ Top.fn \in {"do_add", "do_delete"} /\ Top.pc = "run"

\* C16: every step that runs a route command (route print of a refresh cycle,
\* route add, route delete) appends exactly one record to the audit log,
\* marked SUCCESS exactly when the command exited with status zero, and no
\* other step changes the log.
C16_EveryCommandLogged ==
    [][ IF AtCommand
        THEN /\ Len(audit_log') = Len(audit_log) + 1
             /\ SubSeq(audit_log', 1, Len(audit_log)) = audit_log
             /\ LET after == stack'[Len(stack)]
                    zero == IF Top.fn = "refresh_routes" THEN ~after.loc.fetch_failed
                            ELSE after.loc.result = "0"
                IN  (audit_log'[Len(audit_log')].status = "SUCCESS") <=> zero
        ELSE UNCHANGED audit_log
      ]_vars

\* C17: once the main loop runs, while a call is at a subprocess.run of a route
\* command the main window can handle a user event (a click on a tab).
C17_ForegroundNeverBlocks ==
    (AtCommand /\ stack[1].fn # "__init__")
        => ENABLED (\E tab_id \in Filters : switch_tab(tab_id))

\* the first five columns of a tree row / a snapshot entry
Columns(rows) == [k \in DOMAIN rows |-> SubSeq(rows[k], 1, 5)]
Entries(snapshot) ==
    [k \in DOMAIN snapshot |->
        <<snapshot[k].destination, snapshot[k].netmask, snapshot[k].gateway,
          snapshot[k].interface, snapshot[k].metric>>]

\* C18: for the snapshot as it stands, the All tab lists every entry, the
\* Persistent tab the entries tagged Yes and the Temporary tab the entries
\* tagged No, each in snapshot order; the two have no row in common and hold
\* no Unknown entry; and the tree shows the rows of the current tab whenever a
\* callback can run.
C18_FilterByTag ==
    LET persistent == filter_routes(all_routes_data, "persistent")
        temporary == filter_routes(all_routes_data, "temporary")
    IN  /\ Columns(filter_routes(all_routes_data, "all")) = Entries(all_routes_data)
        /\ Columns(persistent)
              = Entries(SelectSeq(all_routes_data, LAMBDA r : r.persistent = "Yes"))
        /\ Columns(temporary)
              = Entries(SelectSeq(all_routes_data, LAMBDA r : r.persistent = "No"))
        /\ \A k \in DOMAIN persistent, m \in DOMAIN temporary : persistent[k] # temporary[m]
        /\ Len(persistent) + Len(temporary)
              + Cardinality({k \in DOMAIN all_routes_data :
                                all_routes_data[k].persistent = "Unknown"})
              = Len(all_routes_data)
        /\ TimersServed => tree_rows = filter_routes(all_routes_data, current_filter)

\* C18 witness: the Temporary tab shows one row of a snapshot that also holds
\* an Unknown entry
C18_Witness ==
    /\ MainWindowIdle
    /\ current_filter = "temporary"
    /\ Len(tree_rows) = 1
    /\ \E k \in DOMAIN all_routes_data : all_routes_data[k].persistent = "Unknown"

\* C19: whenever a callback can run, the counts on the tabs are those of the
\* snapshot: all its length, persistent its Yes entries, temporary its No
\* entries, so persistent + temporary <= all.
C19_CountsMatchSnapshot ==
    TimersServed =>
        /\ tab_counts.all = Len(all_routes_data)
        /\ tab_counts.persistent
              = Len(SelectSeq(all_routes_data, LAMBDA r : r.persistent = "Yes"))
        /\ tab_counts.temporary
              = Len(SelectSeq(all_routes_data, LAMBDA r : r.persistent = "No"))
        /\ tab_counts.persistent + tab_counts.temporary <= tab_counts.all

\* C19 witness: counts of a snapshot with an Unknown entry, after a refresh
\* that followed a mutation
C19_Witness ==
    /\ MainWindowIdle
    /\ audit_log # <<>>
    /\ tab_counts.all = 2
    /\ tab_counts.persistent + tab_counts.temporary < tab_counts.all

\* C20: a clear that was confirmed ends with the ledger empty in memory and on
\* disk, a declined one with both unchanged; no step of a clear changes the
\* snapshot or runs a command.
C20_ClearOnlyOnConfirmation ==
    [][ /\ (Running("clear_history", "confirm") /\ Len(stack') < Len(stack)) =>
              UNCHANGED <<added_routes, ledger_file>>
        /\ (stack # <<>> /\ Top.fn = "clear_history" /\ Top.pc \in {"save", "dump"}
              /\ Len(stack') < Len(stack)) =>
              /\ added_routes' = <<>>
              /\ load_added_routes(ledger_file') = <<>>
        /\ (stack # <<>> /\ Top.fn = "clear_history") =>
              UNCHANGED <<all_routes_data, audit_log>>
      ]_vars

(***************************************************************************)
(* The validators, against what an address and a mask are                  *)
(***************************************************************************)
\* the call of fn that has returned
Returned(fn) == Running(fn, "return")

\* the pieces of s between its dots, in order, when s has exactly three dots
DotGroups(s) ==
    LET dots == {i \in 1..Len(s) : Char(s, i) = "."}
    IN  IF Cardinality(dots) # 3 THEN <<>>
        ELSE LET d1 == CHOOSE i \in dots : \A j \in dots : i <= j
                 d3 == CHOOSE i \in dots : \A j \in dots : i >= j
                 d2 == CHOOSE i \in dots : i # d1 /\ i # d3
             IN  <<SubSeq(s, 1, d1 - 1), SubSeq(s, d1 + 1, d2 - 1),
                   SubSeq(s, d2 + 1, d3 - 1), SubSeq(s, d3 + 1, Len(s))>>

\* the number a group of one to three decimal digits writes
DecimalValue(g) ==
    LET d(i) == DigitVal(Char(g, i))
    IN  CASE Len(g) = 1 -> d(1)
          [] Len(g) = 2 -> 10 * d(1) + d(2)
          [] Len(g) = 3 -> 100 * d(1) + 10 * d(2) + d(3)

\* s is four dot-separated groups of 1 to 3 decimal digits, each at most 255
IsDottedQuad(s) ==
    LET g == DotGroups(s)
    IN  /\ Len(g) = 4
        /\ \A i \in 1..4 :
              /\ Len(g[i]) \in 1..3
              /\ \A k \in 1..Len(g[i]) : Char(g[i], k) \in Digits
              /\ DecimalValue(g[i]) <= 255

\* what is left of s when whitespace is taken off both ends, in every way
Trimmed(s) ==
    {SubSeq(s, p[1], p[2]) :
        p \in {q \in (1..(Len(s) + 1)) \X (0..Len(s)) :
                  /\ q[1] <= q[2] + 1
                  /\ \A i \in 1..(q[1] - 1) : Char(s, i) \in Whitespace
                  /\ \A i \in (q[2] + 1)..Len(s) : Char(s, i) \in Whitespace}}

\* C22 as stated: validate_ipv4(s) is true exactly when s is four dot-separated
\* groups of 1 to 3 decimal digits, each at most 255
C22_TrueIffDottedQuad ==
    Returned("validate_ipv4") =>
        (Top.loc.result <=> IsDottedQuad(Top.loc.arg.ip))

\* C22: validate_ipv4(s) is true exactly when s, with the whitespace at its two
\* ends taken off, is four dot-separated groups of 1 to 3 decimal digits, each
\* at most 255 (leading zeros accepted); fewer or more groups, a group above
\* 255 and a non-numeric group make it false
C22_TrueIffStrippedDottedQuad ==
    Returned("validate_ipv4") =>
        (Top.loc.result <=> \E core \in Trimmed(Top.loc.arg.ip) : IsDottedQuad(core))

C22_Witness ==
    /\ Returned("validate_ipv4")
    /\ Top.loc.arg.ip = "255.007.0.0"
    /\ Top.loc.result

\* the octet that bits 8(i-1)+1 .. 8i of a mask of n leading ones hold, given
\* how many of the n ones are left for it
PrefixOctet(ones) ==
    IF ones >= 8 THEN 255
    ELSE IF ones <= 0 THEN 0
    ELSE 256 - 2^(8 - ones)

\* the dotted quad is one of the 33 masks of n ones followed by 32 - n zeros
IsPrefixMask(quad) ==
    LET g == DotGroups(quad)
    IN  \E n \in 0..32 :
           \A i \in 1..4 : DecimalValue(g[i]) = PrefixOctet(n - 8 * (i - 1))

\* C23: validate_subnet_mask(s) is true exactly when s is a string that
\* validate_ipv4 accepts and its four octets, written as 32 bits, are a run of
\* ones followed only by zeros: one of the 33 prefix masks; a mask with a zero
\* bit before a one bit, such as 255.0.255.0, is rejected
C23_TrueIffPrefixMask ==
    /\ Returned("validate_subnet_mask") =>
          (Top.loc.result <=>
              \E core \in Trimmed(Top.loc.arg.mask) :
                 IsDottedQuad(core) /\ IsPrefixMask(core))
    /\ Returned("validate_subnet_mask") /\ Top.loc.arg.mask = "255.0.255.0" =>
          ~Top.loc.result

C23_Witness ==
    /\ Returned("validate_subnet_mask")
    /\ Top.loc.arg.mask = "255.254.0.0"
    /\ Top.loc.result

(***************************************************************************)
(* The two readers of a route print, against the sections of its text      *)
(***************************************************************************)
\* line k of lines is a route row of the active section: it comes after a line
\* with the first marker, no line up to it has the second marker, it is no
\* marker, column header or separator, and it has five fields or more of which
\* the first is an address
ActiveRow(lines, k) ==
    /\ \E j \in 1..(k - 1) : Contains(lines[j], "Active Routes:")
    /\ \A j \in 1..k : ~Contains(lines[j], "Persistent Routes:")
    /\ ~Contains(lines[k], "Active Routes:")
    /\ ~Contains(lines[k], "Network Destination")
    /\ ~Contains(lines[k], "==")
    /\ Len(split(lines[k])) >= 5
    /\ IsDottedQuad(split(lines[k])[1])

\* the entry fields 0..4 of a row make
RouteEntryOf(line) ==
    LET field == split(line)
    IN  [destination |-> field[1], netmask |-> field[2], gateway |-> field[3],
         interface |-> field[4], metric |-> field[5]]

\* C24: for every text, parse_route_print returns one entry for each route row
\* of the active section (after "Active Routes:", before "Persistent Routes:",
\* not a header, separator or blank line, five fields or more, field 0 an
\* address), in the order of the text and with equal rows repeated; fields 0..4
\* are destination, netmask, gateway, interface and metric and further fields
\* are dropped
C24_OneEntryPerActiveRow ==
    Returned("parse_route_print") =>
        LET lines == split_on(Top.loc.arg.output, "\n")
            rows == SelectSeq([k \in 1..Len(lines) |-> k],
                              LAMBDA k : ActiveRow(lines, k))
        IN  /\ Len(Top.loc.result) = Len(rows)
            /\ \A i \in 1..Len(rows) : Top.loc.result[i] = RouteEntryOf(lines[rows[i]])

\* two rows of one destination on two interfaces, the second with a sixth field
C24_Witness ==
    /\ Returned("parse_route_print")
    /\ Len(Top.loc.result) = 2
    /\ Top.loc.result[1].destination = Top.loc.result[2].destination
    /\ Top.loc.result[1].interface # Top.loc.result[2].interface
    /\ Top.loc.result[2].metric = "35"

\* line k of lines is a route row of the persistent section: it comes after a
\* line with the second marker, is no marker or separator, and its first field
\* is an address
PersistentRow(lines, k) ==
    /\ \E j \in 1..(k - 1) : Contains(lines[j], "Persistent Routes:")
    /\ ~Contains(lines[k], "Persistent Routes:")
    /\ ~Contains(lines[k], "==")
    /\ Len(split(lines[k])) >= 1
    /\ IsDottedQuad(split(lines[k])[1])

\* line k of lines is a line of the persistent section that says None
NoneLine(lines, k) ==
    /\ \E j \in 1..(k - 1) : Contains(lines[j], "Persistent Routes:")
    /\ ~Contains(lines[k], "Persistent Routes:")
    /\ ~Contains(lines[k], "==")
    /\ Contains(lines[k], "None")

\* C25 as stated: the persistent set is the set of the first fields of the rows
\* that follow "Persistent Routes:" up to the end of the text, empty when the
\* section says None and has no row, and no row before the marker is in it
C25_RowsToEndOfInput ==
    Returned("get_persistent_routes") =>
        LET lines == split_on(Top.loc.arg.output, "\n")
        IN  Top.loc.result =
               {split(lines[k])[1] : k \in {n \in 1..Len(lines) : PersistentRow(lines, n)}}

\* C25: the persistent set is the set of the first fields of the rows that
\* follow "Persistent Routes:" up to the first line of the section that says
\* None, or up to the end of the text when no line does (separators skipped); it
\* is empty when the section is the line None, and no row before the marker is
\* in it
C25_RowsToNoneOrEndOfInput ==
    Returned("get_persistent_routes") =>
        LET lines == split_on(Top.loc.arg.output, "\n")
            rows == {k \in 1..Len(lines) :
                        /\ PersistentRow(lines, k)
                        /\ \A j \in 1..k : ~NoneLine(lines, j)}
        IN  Top.loc.result = {split(lines[k])[1] : k \in rows}

\* a row before the marker and a row after it: only the second is in the set
C25_Witness ==
    /\ Returned("get_persistent_routes")
    /\ Top.loc.arg.output =
          "  0.0.0.0 0.0.0.0 192.168.1.1 192.168.1.5 25\nPersistent Routes:\n  10.0.0.0 255.0.0.0 10.0.0.1 1"
    /\ Top.loc.result = {"10.0.0.0"}

(***************************************************************************)
(* The ledger file                                                         *)
(***************************************************************************)
\* C21: load_added_routes returns a list whatever the file: the empty list when
\* there is no file and when the file holds a dump that was cut short, and,
\* when the file holds the whole dump of a list of records, that list, record
\* by record in the order of the list
C21_LoadToleratesAndRoundTrips ==
    Returned("load_added_routes") =>
        LET file == Top.loc.arg
        IN  /\ ~file.exists => Top.loc.result = <<>>
            /\ file.exists /\ ~file.complete => Top.loc.result = <<>>
            /\ file.complete =>
                  /\ Len(Top.loc.result) = Len(file.saved)
                  /\ \A n \in 1..Len(file.saved) : Top.loc.result[n] = file.saved[n]

\* two different records were saved and are loaded in the order they had
C21_Witness ==
    /\ Returned("load_added_routes")
    /\ Top.loc.arg.complete
    /\ Len(Top.loc.result) = 2
    /\ Top.loc.result[1].persistent = "Yes"
    /\ Top.loc.result[2].persistent = "No"

(***************************************************************************)
(* The snapshot and the outputs of route print                             *)
(***************************************************************************)
\* C26: the rows of every published snapshot and the persistent set that tagged
\* them are those of one and the same route print output
C26_SnapshotFromOneOutput ==
    Running("refresh_routes", "published") =>
        \E output \in RoutePrintOutputs :
           /\ Top.loc.routes = ParsedActive[output]
           /\ Top.loc.persistent_routes = ParsedPersistent[output]

(***************************************************************************)
(* The ledger in memory and the ledger file                                *)
(***************************************************************************)
\* C27: whenever a call of do_add or of clear_history ends, whatever the route
\* command and the write of the ledger file did, the ledger in memory is the
\* ledger the file holds
C27_MemoryEqualsFile ==
    [][ (/\ stack # <<>>
         /\ Top.fn \in {"do_add", "clear_history"}
         /\ stack' = Pop)
            => added_routes' = load_added_routes(ledger_file')
      ]_vars

(***************************************************************************)
(* The polling timer                                                       *)
(***************************************************************************)
\* C28: once the window is up, whatever was toggled, polled, refreshed, added or
\* deleted: pending timers and running ticks are at most one together; whenever
\* the event loop can serve an event, a timer is pending exactly when
\* auto-refresh is enabled; and a tick runs its fetch only while auto-refresh
\* is enabled
C28_OneTimerIffEnabled ==
    /\ Cardinality(timers) + Cardinality(Frames("auto_refresh_tick")) <= 1
    /\ TimersServed => (timers # {} <=> auto_refresh_enabled)
    /\ Frames("auto_refresh_tick") # {} => auto_refresh_enabled
    /\ timers \subseteq {auto_refresh_job}

\* auto-refresh was switched off with a snapshot on show: nothing is pending
C28_Witness ==
    /\ MainWindowIdle
    /\ ~auto_refresh_enabled
    /\ timers = {}
    /\ all_routes_data # <<>>

(***************************************************************************)
(* The route view                                                          *)
(***************************************************************************)
\* the entries of snapshot that tab lists
Listed(snapshot, tab) ==
    SelectSeq(snapshot,
              LAMBDA r : \/ tab = "all"
                         \/ tab = "persistent" /\ r.persistent = "Yes"
                         \/ tab = "temporary" /\ r.persistent = "No")

\* C30: whenever a call returns (a refresh that succeeded or failed, an add, a
\* delete) and after every step taken from the idle main window (a tab switch
\* among them), the tree shows the entries of the current snapshot that the
\* current tab lists, in snapshot order; and a tab switch changes the current
\* tab and the tree only: snapshot, counts, ledger, ledger file and timer stay
\* and no command is run or logged
C30_ViewIsFilterOfSnapshot ==
    [][ /\ (Len(stack') < Len(stack) \/ stack = <<>>) =>
              Columns(tree_rows') = Entries(Listed(all_routes_data', current_filter'))
        /\ (stack = <<>> /\ stack' = <<>> /\ current_filter' # current_filter) =>
              UNCHANGED <<fixed, interfaces, all_routes_data, tab_counts, polling, ledger>>
      ]_vars

\* the Persistent tab was selected on a snapshot of two entries, one tagged Yes
C30_Witness ==
    /\ MainWindowIdle
    /\ current_filter = "persistent"
    /\ Len(all_routes_data) = 2
    /\ Len(tree_rows) = 1
    /\ tree_rows[1][1] = "0.0.0.0"

(***************************************************************************)
(* Polling goes on                                                         *)
(***************************************************************************)
\* refresh_routes is running for an auto_refresh_tick
PollRefresh ==
    /\ Len(stack) >= 2
    /\ Top.fn = "refresh_routes"
    /\ stack[Len(stack) - 1].fn = "auto_refresh_tick"

\* C29: a tick whose fetch failed and a tick whose fetch published both leave
\* the next tick scheduled; as long as auto-refresh is enabled a tick starts a
\* fetch again and again; and a fetch of a tick whose route print exited with
\* status zero publishes the snapshot made of its rows
C29_PollingGoesOn ==
    /\ (PollRefresh /\ Top.pc \in {"return", "published"}) ~> (auto_refresh_job \in timers)
    /\ []<>(~auto_refresh_enabled \/ (PollRefresh /\ Top.pc = "run"))
    /\ (PollRefresh /\ Top.pc = "get_persistent")
          ~> (/\ PollRefresh /\ Top.pc = "published"
              /\ all_routes_data = classify_all(Top.loc.routes, Top.loc.persistent_routes))

\* the fetch of a tick failed after an earlier one had published a snapshot
C29_Witness ==
    /\ PollRefresh
    /\ Top.pc = "return"
    /\ Top.loc.fetch_failed
    /\ all_routes_data # <<>>
    /\ auto_refresh_enabled

====
